---- MODULE Spec2Model ----
(***************************************************************************)
(* The generation pipeline of learnhub-backend (src/main.py): one request  *)
(* to generate_learning_path, its calls to the Text-Generation service     *)
(* through call_bedrock_api, to the Video-Search service through           *)
(* fetch_youtube_videos and to the Course Store through                    *)
(* upload_course_to_s3.  The three services are stubs whose every answer   *)
(* is a nondeterministic choice.                                           *)
(***************************************************************************)
EXTENDS Integers, Sequences, FiniteSets, TLC

VARIABLES
    pc,             \* stage of generate_learning_path
    request,        \* the CourseRequest being served
    model_id,       \* the model identifier chosen for the request, "" before it
    inCall,         \* TRUE while a call_bedrock_api invocation is running
    attempt,        \* loop variable of the running call_bedrock_api invocation
    waits,          \* the time.sleep durations of that invocation, in order
    invokes,        \* stub: invoke_model calls it received during that invocation
    throttled,      \* stub: ThrottlingExceptions it raised during that invocation
    errors,         \* stub: other exceptions it raised during that invocation
    served,         \* stub: the text of the response it last served
    ret,            \* outcome of the last finished call_bedrock_api invocation
    intro_data,     \* the parsed outline
    idx,            \* 1-based position of the outline chapter being processed
    chapter_model,  \* the parsed chapter that waits for its videos
    full_chapters,  \* the finished chapters
    course_data,    \* the assembled document handed to upload_course_to_s3
    response,       \* what the caller receives: the document or the error
    contentCalled,  \* stub: outline positions it got a chapter prompt for
    searched,       \* stub: outline positions the Video-Search service was queried for
    summaryCalled,  \* stub: TRUE once it got the summary prompt
    modelsUsed,     \* stub: the modelId arguments of the invoke_model calls
    puts,           \* stub: number of put_object calls
    failed,         \* the failures so far: the stage, and the outline position
    bench           \* state of the function studied by the specifications
                    \* other than Spec; None in Spec

vars == <<pc, request, model_id, inCall, attempt, waits, invokes, throttled,
          errors, served, ret, intro_data, idx, chapter_model, full_chapters,
          course_data, response, contentCalled, searched, summaryCalled,
          modelsUsed, puts, failed, bench>>

-----------------------------------------------------------------------------
(* Bounds of the model *)

\* largest chapter count of a request, of an outline, and largest chapter_number
\* the Text-Generation service writes
MaxChapters == 2
\* longest youtube_keywords list of a chapter
MaxKeywords == 1
\* longest list of search queries given to fetch_youtube_videos on its own
MaxQueries == 6
\* the videos the Video-Search service knows are 1..MaxVideoId
MaxVideoId == 4
\* longest text given to safe_json_loads character by character
MaxTextLen == 4
\* longest course title of a document put in the store
MaxTitleLen == 2
\* largest number of requests that reach the put, and largest value of the clock
MaxRequests == 3
MaxClock == 1

-----------------------------------------------------------------------------
(* Program constants *)

\* a retry budget one attempt too long
MaxAttemptsOneMore == 5 + 1

\* range(5) in call_bedrock_api
MaxAttempts == 5
\* YOUTUBE_LIMITS
videos_per_keyword == 1
keywords_per_chapter == 5
max_total_videos == 3
\* study_links[:5]
MaxStudyLinks == 5

None == [type |-> "None"]

Min(a, b) == IF a < b THEN a ELSE b

\* s[:n]
Take(s, n) == SubSeq(s, 1, Min(n, Len(s)))

RECURSIVE SumSeq(_)
SumSeq(s) == IF s = <<>> THEN 0 ELSE Head(s) + SumSeq(Tail(s))

-----------------------------------------------------------------------------
(* Requests *)

\* class CourseCategory
CourseCategory ==
    {"Technical & Programming", "Mathematics and Algorithms",
     "Science & Engineering", "History & Social Studies",
     "Creative Writing & Literature", "Business & Finance",
     "Health & Medicine", "General"}

\* MODEL_IDS
MODEL_IDS ==
    [c \in CourseCategory |->
        CASE c \in {"Technical & Programming", "Mathematics and Algorithms",
                    "General"} ->
                "us.anthropic.claude-3-5-sonnet-20241022-v2:0"
          [] c = "Health & Medicine" -> "amazon.titan-text-express-v1"
          [] OTHER -> "anthropic.claude-3-sonnet-20240229-v1:0"]

\* a lookup that ignores the category
select_general_model(category) == MODEL_IDS["General"]

\* MODEL_IDS.get(request.category, MODEL_IDS["General"])
select_model(category) ==
    IF category \in DOMAIN MODEL_IDS THEN MODEL_IDS[category]
    ELSE MODEL_IDS["General"]

\* CourseRequest: chapters is any int; the category only selects the model, and
\* the other fields do not steer the pipeline
Requests == [chapters : 0..MaxChapters, category : {"Mathematics and Algorithms"}]

-----------------------------------------------------------------------------
(* Texts of the Text-Generation service.  A text is its JSON reading (json) *)
(* and where its control characters are (ctl): "none"; "ws", only between   *)
(* JSON tokens, where json.loads takes them as white space; "raw", inside a *)
(* string or a token, where json.loads rejects them.                        *)

Ctl == {"none", "ws", "raw"}

\* the chapter_number the service writes where n is the right one: n or n + 1
NumSet(n) == {n, n + 1}

\* an outline entry {"chapter_number": int, "chapter_title": str, "summary": str}
OutlineChapter(position) ==
    [chapter_number : NumSet(position), chapter_title : {"title"}]

\* the outlines are of every length up to MaxChapters, also other than the
\* chapter count the prompt asked for
OutlineChapterLists ==
    UNION {{chapters \in [1..n -> UNION {OutlineChapter(i) : i \in 1..n}] :
                \A i \in 1..n : chapters[i] \in OutlineChapter(i)}
           : n \in 0..MaxChapters}

CourseTitles == {"Course"}

OutlineJson == [type : {"outline"}, course_title : CourseTitles,
                chapters : OutlineChapterLists]

\* youtube_keywords of a chapter response: keyword q is the integer q
KeywordLists == {[i \in 1..n |-> i] : n \in 0..MaxKeywords}

\* study_notes the service writes for a chapter prompt
NotesFor(chapter_number) == <<"notes", chapter_number>>

ChapterJson(promptNumber) ==
    [type : {"chapter"}, chapter_number : NumSet(promptNumber),
     study_notes : {NotesFor(promptNumber)}, youtube_keywords : KeywordLists]

\* valid JSON without the keys the pipeline reads, e.g. {}: an outline has
\* all of description, chapters and course_title, or is of this kind
OtherJson == [type |-> "other"]

\* text that is no JSON even without its control characters
BadJson == [type |-> "bad"]

\* the empty string
EmptyText == [ctl |-> "none", json |-> [type |-> "empty"]]

\* the plain text of a narrative summary, with or without surrounding white space
SummaryJson == [type : {"plain"}, words : {"summary"}, pad : BOOLEAN]

OutlineTexts == [ctl : Ctl, json : OutlineJson \cup {OtherJson, BadJson}]
ChapterTexts(promptNumber) ==
    [ctl : Ctl, json : ChapterJson(promptNumber) \cup {OtherJson, BadJson}]
SummaryTexts == [ctl : {"none"}, json : SummaryJson]

-----------------------------------------------------------------------------
(* Exceptions and results *)

Ok(v) == [raised |-> FALSE, value |-> v]
Raise(e) == [raised |-> TRUE, exc |-> e]

HTTPException(status, detail) ==
    [exc |-> "HTTPException", status_code |-> status, detail |-> detail]

\* a string written in the source
literal(text) == [type |-> "str", text |-> text]

\* str(e): the exception rendered as one string
str(e) == [type |-> "str", of |-> e]

\* the detail of the HTTP 429 of call_bedrock_api
ThrottledDetail ==
    [error |-> literal("Too many requests to Claude. Please try again later.")]

\* the detail of the HTTP 500 raised for a JSONDecodeError
InvalidJsonDetail(raw_output) ==
    [error |-> "Claude returned invalid JSON",
     json_error |-> str([exc |-> "JSONDecodeError"]),
     raw_output |-> raw_output]

-----------------------------------------------------------------------------
(* Response Sanitizer *)

\* re.sub(r"[\x00-\x1f\x7f]", "", response_text)
strip_control_chars(text) == [text EXCEPT !.ctl = "none"]

\* json.loads
json_loads(text) ==
    IF text.json.type \in {"bad", "empty"} \/ text.ctl = "raw"
    THEN Raise([exc |-> "JSONDecodeError"])
    ELSE Ok(text.json)

safe_json_loads(response_text) ==
    LET stripped == strip_control_chars(response_text)
        parsed == json_loads(stripped)
    IN  IF parsed.raised
        THEN Raise(HTTPException(500, InvalidJsonDetail(stripped)))
        ELSE parsed

-----------------------------------------------------------------------------
(* Model Invoker: call_bedrock_api *)

\* a handler that retries after every exception
retryable_always(exception) == TRUE

\* except bedrock_client.exceptions.ThrottlingException is the one handler that
\* lets the loop go on
retryable(exception) == exception = "ThrottlingException"

\* a backoff that grows by one second
sleep_linear(a, w) == Append(w, a + 1)

\* a backoff that skips the sleep after the first attempt
sleep_unless_first(a, w) == IF a = 0 THEN w ELSE Append(w, 2 ^ a)

\* time.sleep(2 ** attempt) after the throttled attempt `a`, added to the sleeps `w`
sleep_after_throttle(a, w) == Append(w, 2 ^ a)

\* a response body of invoke_model: {"content": [{"text": t}]}, {"content": []} or {}
ResponseBodies(texts) ==
    [has_content : {TRUE}, content : {<<t>> : t \in texts} \cup {<<>>}]
        \cup {[has_content |-> FALSE, content |-> <<>>]}

\* response_body.get("content", [{}])[0].get("text", "")
extract_text(body) ==
    IF ~body.has_content THEN Ok(EmptyText)
    ELSE IF body.content = <<>> THEN Raise([exc |-> "IndexError"])
    ELSE Ok(body.content[1])

\* an invocation that goes on with the attempt number of the one before
StartCallSharedBudget ==
    /\ inCall' = TRUE
    /\ attempt' = attempt
    /\ waits' = <<>>
    /\ invokes' = 0
    /\ throttled' = 0
    /\ errors' = 0
    /\ served' = None
    /\ ret' = None

\* the locals of a fresh call_bedrock_api invocation
StartCall ==
    /\ inCall' = TRUE
    /\ attempt' = 0
    /\ waits' = <<>>
    /\ invokes' = 0
    /\ throttled' = 0
    /\ errors' = 0
    /\ served' = None
    /\ ret' = None

-----------------------------------------------------------------------------
(* Resource Fetcher: fetch_youtube_videos *)

\* f"https://www.youtube.com/watch?v={item['id']}"
video_link(id) == <<"https://www.youtube.com/watch?v=", id>>

\* an item of the videos endpoint; one that is not wellformed lacks a key the
\* code reads inside its try block
Item(id, views, likes, publishedAt, wellformed) ==
    [id |-> id, viewCount |-> views, likeCount |-> likes,
     publishedAt |-> publishedAt, wellformed |-> wellformed]

\* video_data; it has no "score" key (the lines computing it are commented out)
video_data(item, query) ==
    [video_id |-> item.id, video_link |-> video_link(item.id),
     publish_date |-> item.publishedAt,
     view_count |-> item.viewCount, like_count |-> item.likeCount,
     search_query |-> query]

\* a loop that appends every wellformed item
RECURSIVE add_items_all(_, _, _)
add_items_all(videos, items, query) ==
    IF items = <<>> THEN videos
    ELSE add_items_all(IF Head(items).wellformed
                       THEN Append(videos, video_data(Head(items), query))
                       ELSE videos,
                       Tail(items), query)

\* a loop that lets a later query take over a video it returns again
RECURSIVE add_items_keep_last(_, _, _)
add_items_keep_last(videos, items, query) ==
    IF items = <<>> THEN videos
    ELSE LET item == Head(items)
             known == \E i \in 1..Len(videos) : videos[i].video_id = item.id
             next == IF ~item.wellformed THEN videos
                     ELSE IF known
                          THEN [i \in 1..Len(videos) |->
                                    IF videos[i].video_id = item.id
                                    THEN video_data(item, query) ELSE videos[i]]
                     ELSE Append(videos, video_data(item, query))
         IN  add_items_keep_last(next, Tail(items), query)

\* the for loop over stats_response.json()["items"]
RECURSIVE add_items(_, _, _)
add_items(videos, items, query) ==
    IF items = <<>> THEN videos
    ELSE LET item == Head(items)
             keep == /\ item.wellformed
                     /\ ~\E i \in 1..Len(videos) : videos[i].video_id = item.id
         IN  add_items(IF keep THEN Append(videos, video_data(item, query)) ELSE videos,
                       Tail(items), query)

\* v.get("score", 0)
score(v) == IF "score" \in DOMAIN v THEN v.score ELSE 0

\* a sort that puts a video before the videos of equal score
RECURSIVE insert_before_equals(_, _)
insert_before_equals(sorted, v) ==
    IF sorted = <<>> THEN <<v>>
    ELSE IF score(Head(sorted)) > score(v)
         THEN <<Head(sorted)>> \o insert_before_equals(Tail(sorted), v)
         ELSE <<v>> \o sorted

\* list.sort(key=score, reverse=True): stable, descending
RECURSIVE insert_by_score(_, _)
insert_by_score(sorted, v) ==
    IF sorted = <<>> THEN <<v>>
    ELSE IF score(Head(sorted)) >= score(v)
         THEN <<Head(sorted)>> \o insert_by_score(Tail(sorted), v)
         ELSE <<v>> \o sorted

RECURSIVE sort_by_score(_)
sort_by_score(videos) ==
    IF videos = <<>> THEN <<>>
    ELSE insert_by_score(sort_by_score(SubSeq(videos, 1, Len(videos) - 1)),
                         videos[Len(videos)])

\* The answers of the Video-Search service to one query: the search request
\* raises (transport or decoding error), answers a status other than 200, or
\* answers the video ids `ids`; then the videos request does the same with `items`.
QueryAnswer(search, ids, stats, items) ==
    [search |-> search, ids |-> ids, stats |-> stats, items |-> items]

\* a status check that raises, as response.raise_for_status() would
raise_for_status(acc) == [acc EXCEPT !.raised = TRUE]

\* a status check that sends the query once more
retry_after_status(acc) ==
    [acc EXCEPT !.queried = Append(@, acc.queried[Len(acc.queried)])]

\* if response.status_code != 200: continue
after_status(acc) == acc

\* the for loop over search_queries[:keywords_per_chapter]; acc holds the videos
\* gathered and the queries sent so far
RECURSIVE fetch_loop(_, _, _, _)
fetch_loop(queries, answers, i, acc) ==
    IF i > Len(queries) THEN acc
    ELSE LET a == answers[i]
             asked == [acc EXCEPT !.queried = Append(@, queries[i])]
         IN  IF a.search = "raise" THEN [asked EXCEPT !.raised = TRUE]
             ELSE IF a.search = "status"
                  THEN fetch_loop(queries, answers, i + 1, after_status(asked))
             ELSE IF a.ids = <<>>
                  THEN fetch_loop(queries, answers, i + 1, asked)
             ELSE IF a.stats = "raise" THEN [asked EXCEPT !.raised = TRUE]
             ELSE IF a.stats = "status"
                  THEN fetch_loop(queries, answers, i + 1, after_status(asked))
             ELSE fetch_loop(queries, answers, i + 1,
                     [asked EXCEPT !.videos = add_items(@, a.items, queries[i])])

fetch_trace(search_queries, answers) ==
    fetch_loop(Take(search_queries, keywords_per_chapter), answers, 1,
               [raised |-> FALSE, videos |-> <<>>, queried |-> <<>>])

\* a return without the slice
fetch_result_untruncated(t) ==
    IF t.raised THEN Raise([exc |-> "RequestException"])
    ELSE Ok([total_videos |-> Len(t.videos), videos |-> sort_by_score(t.videos)])

\* what follows the loop: sort, truncate, return; an exception of requests.get
\* or of .json() left the function before
fetch_result(t) ==
    LET top_videos == Take(sort_by_score(t.videos), max_total_videos)
    IN  IF t.raised THEN Raise([exc |-> "RequestException"])
        ELSE Ok([total_videos |-> Len(top_videos), videos |-> top_videos])

fetch_youtube_videos(search_queries, answers) ==
    fetch_result(fetch_trace(search_queries, answers))

\* the answers the stub gives in the pipeline to the query q: the one video
\* it knows for q is the video q
QueryAnswers(q) ==
    {QueryAnswer("raise", <<>>, "ok", <<>>),
     QueryAnswer("status", <<>>, "ok", <<>>),
     QueryAnswer("ok", <<>>, "ok", <<>>),
     QueryAnswer("ok", <<q>>, "raise", <<>>),
     QueryAnswer("ok", <<q>>, "status", <<>>),
     QueryAnswer("ok", <<q>>, "ok", <<Item(q, 0, 0, 0, TRUE)>>)}

\* its answers to the queries of a keyword list
AnswerLists(keywords) ==
    {answers \in [1..Len(keywords) ->
                    UNION {QueryAnswers(keywords[i]) : i \in 1..Len(keywords)}] :
        \A i \in 1..Len(keywords) : answers[i] \in QueryAnswers(keywords[i])}

-----------------------------------------------------------------------------
(* Pipeline Orchestrator: generate_learning_path *)

callVars == <<inCall, attempt, waits, invokes, throttled, errors, served, ret>>

\* a stage raised an exception; position is the outline position of the chapter
\* for the stages of the chapter loop, 0 for the others
Failure(stage, position) == [stage |-> stage, position |-> position]

\* local handlers that would swallow the exception of one stage
disposition_outline_swallowed(stage) ==
    IF stage = "outline" THEN "recover" ELSE "fatal"

disposition_chapter_swallowed(stage) ==
    IF stage = "chapter" THEN "recover" ELSE "fatal"

disposition_persist_swallowed(stage) ==
    IF stage = "persist" THEN "recover" ELSE "fatal"

\* What an exception raised in a stage does to the request.  The function has
\* one handler, the except clause around its whole body, so every stage is
\* "fatal"; "recover" would be a handler local to the stage.
disposition(stage) == "fatal"

\* except Exception as e: raise HTTPException(status_code=500, detail={"error": str(e)})
Fail(e) ==
    /\ pc' = "FAILED"
    /\ response' = HTTPException(500, [error |-> str(e)])
    /\ UNCHANGED callVars

\* the pipeline enters call_bedrock_api
Call(stage) ==
    /\ pc' = stage
    /\ StartCall
    /\ UNCHANGED response

Goto(stage) ==
    /\ pc' = stage
    /\ UNCHANGED <<response, callVars>>

\* a loop that stops after the first chapter
loop_done_after_first(i, chapters) == i >= Min(1, Len(chapters))

\* for chapter in intro_data["chapters"]: TRUE when position i was the last one
loop_done(i, chapters) == i >= Len(chapters)

\* fix_ai_chapter_format(chapter, index) and the ChapterContent(**chapter) in it
fix_ai_chapter_format(chapter, index) ==
    IF chapter.type # "chapter" THEN Raise([exc |-> "ValidationError"])
    ELSE Ok([chapter_number |-> index + 1,
             study_notes |-> chapter.study_notes,
             youtube_keywords |-> chapter.youtube_keywords,
             videos |-> None])

\* the index generate_learning_path passes to fix_ai_chapter_format for the
\* outline entry `chapter` at 1-based position `position`
chapter_index(chapter, position) == chapter.chapter_number - 1

\* a loop that appends every video link
RECURSIVE collect_links_all(_, _)
collect_links_all(links, videos) ==
    IF videos = <<>> THEN links
    ELSE collect_links_all(Append(links, Head(videos).video_link), Tail(videos))

\* the study_links loop: the distinct video links, chapters and videos in order
RECURSIVE collect_links(_, _)
collect_links(links, videos) ==
    IF videos = <<>> THEN links
    ELSE collect_links(
            IF \E i \in 1..Len(links) : links[i] = Head(videos).video_link
            THEN links ELSE Append(links, Head(videos).video_link),
            Tail(videos))

RECURSIVE study_links_of(_, _)
study_links_of(links, chapters) ==
    IF chapters = <<>> THEN links
    ELSE study_links_of(collect_links(links, Head(chapters).videos.videos),
                        Tail(chapters))

\* study_links[:5]
study_links(chapters) == Take(study_links_of(<<>>, chapters), MaxStudyLinks)

TemplatedOverview ==
    "This course provides a deep dive into the topic with practical chapters and visual resources."

\* str.strip() of the summary text
str_strip(text) ==
    IF text.json.type = "plain" THEN [text EXCEPT !.json.pad = FALSE] ELSE text

\* a count of the videos of the first chapter only
count_of_first_chapter(chapters) ==
    IF chapters = <<>> THEN 0 ELSE Len(chapters[1].videos.videos)

\* sum(len(c.videos.videos) for c in full_chapters)
youtube_resources_count(chapters) ==
    SumSeq([i \in 1..Len(chapters) |-> Len(chapters[i].videos.videos)])

\* course_data, lines 407-425
build_course_data(intro, chapters, summary_text) ==
    [course_title |-> intro.course_title,
     chapters |-> chapters,
     learning_path_summary |->
        [overview |-> TemplatedOverview,
         recommended_study_links |-> study_links(chapters),
         course_summary |-> summary_text],
     metadata |->
        [youtube_resources_count |-> youtube_resources_count(chapters),
         total_chapters |-> Len(chapters)]]

\* the request arrives: model id, outline prompt, first call_bedrock_api
ReceiveRequest(req) ==
    /\ pc = "START"
    /\ request' = req
    /\ model_id' = select_model(req.category)
    /\ Call("OUTLINE_REQUESTED")
    /\ UNCHANGED <<intro_data, idx, chapter_model, full_chapters, course_data,
                   contentCalled, searched, summaryCalled, modelsUsed, puts,
                   failed, bench>>

\* a pipeline that waits for ever after the chapter loop
AfterLoopHangs(intro) == Goto("LOOP_DONE")

\* a pipeline that goes from the chapter loop to the upload
AfterLoopUploads(intro) == Goto("PERSISTING")

\* what follows the chapter loop up to the summary call: the study links and
\* build_course_summary_prompt
AfterLoop(intro) == Call("SUMMARY_REQUESTED")

\* position i of the outline is finished (i = 0: the loop starts): the loop
\* ends, or goes on with the chapter prompt of position i + 1
NextChapter(intro, i) ==
    IF loop_done(i, intro.chapters)
    THEN idx' = idx /\ AfterLoop(intro)
    ELSE idx' = i + 1 /\ Call("CONTENT_REQUESTED")

\* the texts the stub may answer to the prompt of the running invocation
TextsAt ==
    CASE pc = "OUTLINE_REQUESTED" -> OutlineTexts
      [] pc = "CONTENT_REQUESTED" ->
            ChapterTexts(intro_data.chapters[idx].chapter_number)
      [] pc = "SUMMARY_REQUESTED" -> SummaryTexts

\* the stub receives one invoke_model call
NoteInvoke ==
    /\ invokes' = invokes + 1
    /\ contentCalled' = IF pc = "CONTENT_REQUESTED"
                        THEN contentCalled \cup {idx} ELSE contentCalled
    /\ summaryCalled' = (summaryCalled \/ pc = "SUMMARY_REQUESTED")
    /\ modelsUsed' = modelsUsed \cup {model_id}

pipelineVars == <<pc, request, model_id, intro_data, idx, chapter_model,
                  full_chapters, course_data, response, searched, puts, failed>>

\* stub: in SpecBudget it counts the invocations of the request that were
\* throttled on all attempts but the last; n is the number of throttled attempts
\* of the running invocation
note_throttle(b, n) ==
    IF b.type = "budget" /\ n = MaxAttempts - 1
    THEN [b EXCEPT !.spent = @ + 1] ELSE b

\* the except ThrottlingException clause: sleep, then the next attempt, or
\* HTTP 429 when range(MaxAttempts) is used up
RetryOrGiveUp ==
    /\ waits' = sleep_after_throttle(attempt, waits)
    /\ attempt' = attempt + 1
    /\ IF attempt + 1 >= MaxAttempts
       THEN /\ inCall' = FALSE
            /\ ret' = Raise(HTTPException(429, ThrottledDetail))
       ELSE UNCHANGED <<inCall, ret>>

\* one attempt of call_bedrock_api ends in a ThrottlingException: sleep, then
\* the next attempt, or HTTP 429 when range(MaxAttempts) is used up
InvokeModelThrottled ==
    /\ inCall
    /\ NoteInvoke
    /\ throttled' = throttled + 1
    /\ RetryOrGiveUp
    /\ bench' = note_throttle(bench, throttled + 1)
    /\ UNCHANGED <<errors, served, pipelineVars>>

\* one attempt gets a response: return its text
InvokeModelReturns(body) ==
    /\ inCall
    /\ NoteInvoke
    /\ served' = body
    /\ inCall' = FALSE
    /\ ret' = LET text == extract_text(body)
              IN  IF text.raised THEN Raise(HTTPException(500, [error |-> str(text.exc)])) ELSE text
    /\ UNCHANGED <<attempt, waits, throttled, errors, pipelineVars, bench>>

\* one attempt ends in any other exception: HTTP 500 at once
InvokeModelFails ==
    /\ inCall
    /\ NoteInvoke
    /\ errors' = errors + 1
    /\ IF retryable("ClientError")
       THEN RetryOrGiveUp
       ELSE /\ inCall' = FALSE
            /\ ret' = Raise(HTTPException(500,
                                           [error |-> str([exc |-> "ClientError"])]))
            /\ UNCHANGED <<attempt, waits>>
    /\ UNCHANGED <<throttled, served, pipelineVars, bench>>

\* lines 358-372: the outline call returned or raised
OutlineParsed ==
    /\ pc = "OUTLINE_REQUESTED" /\ ~inCall
    /\ LET parsed == IF ret.raised THEN ret ELSE json_loads(ret.value)
           failure ==
              IF ret.raised THEN ret.exc
              ELSE IF parsed.raised
                   THEN HTTPException(500, InvalidJsonDetail(ret.value))
              ELSE IF parsed.value.type # "outline" THEN [exc |-> "KeyError"]
              ELSE None
           intro == IF failure = None THEN parsed.value
                    ELSE [type |-> "outline", course_title |-> "Course",
                          chapters |-> <<>>]
       IN  /\ failed' = IF failure # None THEN failed \cup {Failure("outline", 0)}
                         ELSE failed
           /\ IF failure # None /\ disposition("outline") = "fatal"
              THEN Fail(failure) /\ UNCHANGED <<intro_data, idx>>
              ELSE intro_data' = intro /\ NextChapter(intro, 0)
    /\ UNCHANGED <<request, chapter_model, full_chapters, course_data,
                   contentCalled, searched, summaryCalled, puts,
                   model_id, modelsUsed, bench>>

\* lines 382-385: the chapter call returned or raised
ChapterParsed ==
    /\ pc = "CONTENT_REQUESTED" /\ ~inCall
    /\ LET parsed == IF ret.raised THEN ret ELSE safe_json_loads(ret.value)
           outline_chapter == intro_data.chapters[idx]
           fixed == IF parsed.raised THEN parsed
                    ELSE fix_ai_chapter_format(parsed.value,
                            chapter_index(outline_chapter, idx))
       IN  /\ failed' = IF fixed.raised THEN failed \cup {Failure("chapter", idx)}
                         ELSE failed
           /\ IF fixed.raised
              THEN IF disposition("chapter") = "fatal"
                   THEN Fail(fixed.exc) /\ UNCHANGED <<idx, chapter_model>>
                   ELSE NextChapter(intro_data, idx) /\ UNCHANGED chapter_model
              ELSE /\ chapter_model' = fixed.value
                   /\ Goto("RESOURCES")
                   /\ UNCHANGED idx
    /\ UNCHANGED <<request, intro_data, full_chapters, course_data,
                   contentCalled, searched, summaryCalled, puts,
                   model_id, modelsUsed, bench>>

EmptyResources == [total_videos |-> 0, videos |-> <<>>]

\* lines 386-388: fetch_youtube_videos against the answers of the Video-Search
\* service, then the next chapter
ResourcesAttached(answers) ==
    /\ pc = "RESOURCES"
    /\ LET keywords == chapter_model.youtube_keywords
           yt_data == fetch_youtube_videos(keywords, answers)
           queried == fetch_trace(keywords, answers).queried
       IN  /\ searched' = IF queried # <<>> THEN searched \cup {idx} ELSE searched
           /\ failed' = IF yt_data.raised
                         THEN failed \cup {Failure("resources", idx)} ELSE failed
           /\ IF yt_data.raised /\ disposition("resources") = "fatal"
              THEN /\ Fail(yt_data.exc)
                   /\ UNCHANGED <<idx, full_chapters, chapter_model>>
              ELSE /\ full_chapters' = Append(full_chapters,
                        [chapter_model EXCEPT !.videos =
                            IF yt_data.raised THEN EmptyResources ELSE yt_data.value])
                   /\ chapter_model' = None
                   /\ NextChapter(intro_data, idx)
    /\ UNCHANGED <<request, intro_data, course_data, contentCalled,
                   summaryCalled, puts,
                   model_id, modelsUsed, bench>>

\* lines 404-428: the summary call returned or raised; course_data is built
Aggregated ==
    /\ pc = "SUMMARY_REQUESTED" /\ ~inCall
    /\ failed' = IF ret.raised THEN failed \cup {Failure("summary", 0)} ELSE failed
    /\ IF ret.raised /\ disposition("summary") = "fatal"
       THEN Fail(ret.exc) /\ UNCHANGED course_data
       ELSE /\ course_data' = build_course_data(intro_data, full_chapters,
                    IF ret.raised THEN None ELSE str_strip(ret.value))
            /\ Goto("PERSISTING")
    /\ UNCHANGED <<request, intro_data, idx, chapter_model, full_chapters,
                   contentCalled, searched, summaryCalled, puts,
                   model_id, modelsUsed, bench>>

\* LearningPathResponse(...), lines 434-444
LearningPathResponse(data) == [status_code |-> 200, document |-> data]

\* lines 429-444: upload_course_to_s3, whose put_object succeeds or raises
PutObject(ok) ==
    /\ pc = "PERSISTING"
    /\ puts' = puts + 1
    /\ failed' = IF ok THEN failed ELSE failed \cup {Failure("persist", 0)}
    /\ IF ~ok /\ disposition("persist") = "fatal"
       THEN Fail([exc |-> "ClientError"])
       ELSE /\ pc' = "DONE"
            /\ response' = LearningPathResponse(course_data)
            /\ UNCHANGED callVars
    /\ UNCHANGED <<request, intro_data, idx, chapter_model, full_chapters,
                   course_data, contentCalled, searched, summaryCalled,
                   model_id, modelsUsed, bench>>

InitHandler ==
    /\ pc = "START"
    /\ request = None
    /\ model_id = ""
    /\ inCall = FALSE
    /\ attempt = 0
    /\ waits = <<>>
    /\ invokes = 0
    /\ throttled = 0
    /\ errors = 0
    /\ served = None
    /\ ret = None
    /\ intro_data = None
    /\ idx = 0
    /\ chapter_model = None
    /\ full_chapters = <<>>
    /\ course_data = None
    /\ response = None
    /\ contentCalled = {}
    /\ searched = {}
    /\ summaryCalled = FALSE
    /\ modelsUsed = {}
    /\ puts = 0
    /\ failed = {}

Init ==
    /\ InitHandler
    /\ bench = None

Next ==
    \/ \E req \in Requests : ReceiveRequest(req)
    \/ InvokeModelThrottled
    \/ inCall /\ \E body \in ResponseBodies(TextsAt) : InvokeModelReturns(body)
    \/ InvokeModelFails
    \/ OutlineParsed
    \/ ChapterParsed
    \/ pc = "RESOURCES"
          /\ \E answers \in AnswerLists(chapter_model.youtube_keywords) :
                ResourcesAttached(answers)
    \/ Aggregated
    \/ \E ok \in BOOLEAN : PutObject(ok)

Spec == Init /\ [][Next]_vars

\* requests of one chapter in every category
CategoryRequests == [chapters : {1}, category : CourseCategory]

\* the handler serving a request of any category
NextModels ==
    \/ \E req \in CategoryRequests : ReceiveRequest(req)
    \/ InvokeModelThrottled
    \/ inCall /\ \E body \in ResponseBodies(TextsAt) : InvokeModelReturns(body)
    \/ InvokeModelFails
    \/ OutlineParsed
    \/ ChapterParsed
    \/ pc = "RESOURCES"
          /\ \E answers \in AnswerLists(chapter_model.youtube_keywords) :
                ResourcesAttached(answers)
    \/ Aggregated
    \/ \E ok \in BOOLEAN : PutObject(ok)

SpecModels == Init /\ [][NextModels]_vars

\* requests of one chapter in the category General
BudgetRequests == [chapters : {1}, category : {"General"}]

\* the response bodies whose text has no control character
PlainBodies(texts) ==
    {body \in ResponseBodies(texts) :
        \A i \in 1..Len(body.content) : body.content[i].ctl = "none"}

\* the handler when the texts it is served are of this kind
NextLive ==
    \/ \E req \in BudgetRequests : ReceiveRequest(req)
    \/ InvokeModelThrottled
    \/ inCall /\ \E body \in PlainBodies(TextsAt) : InvokeModelReturns(body)
    \/ InvokeModelFails
    \/ OutlineParsed
    \/ ChapterParsed
    \/ pc = "RESOURCES"
          /\ \E answers \in AnswerLists(chapter_model.youtube_keywords) :
                ResourcesAttached(answers)
    \/ Aggregated
    \/ \E ok \in BOOLEAN : PutObject(ok)

\* every call the handler makes returns: the request arrives, and a step
\* that can be taken is taken
SpecLive ==
    /\ Init
    /\ [][NextLive]_vars
    /\ WF_<<pc, inCall, invokes>>(NextLive)

\* the handler with the heavily throttled invocations of the request counted

InitBudget ==
    /\ InitHandler
    /\ bench = [type |-> "budget", spent |-> 0]

NextBudget ==
    \/ \E req \in BudgetRequests : ReceiveRequest(req)
    \/ InvokeModelThrottled
    \/ inCall /\ \E body \in ResponseBodies(TextsAt) : InvokeModelReturns(body)
    \/ InvokeModelFails
    \/ OutlineParsed
    \/ ChapterParsed
    \/ pc = "RESOURCES"
          /\ \E answers \in AnswerLists(chapter_model.youtube_keywords) :
                ResourcesAttached(answers)
    \/ Aggregated
    \/ \E ok \in BOOLEAN : PutObject(ok)

SpecBudget == InitBudget /\ [][NextBudget]_vars

-----------------------------------------------------------------------------
(* fetch_youtube_videos on its own: one step per request to the Video-Search
   service and per iteration of the loop over the items of a videos response *)

handlerVars == <<pc, request, model_id, inCall, attempt, waits, invokes,
                 throttled, errors, served, ret, intro_data, idx, chapter_model,
                 full_chapters, course_data, response, contentCalled, searched,
                 summaryCalled, modelsUsed, puts, failed>>

\* the statistics and the publication day the service reports for a video
views_of(id) == id
likes_of(id) == id \div 2
published_of(id) == id % 2

\* the items a videos response can hold: the known videos, and an item that
\* lacks a key
known_item(id) == Item(id, views_of(id), likes_of(id), published_of(id), TRUE)

StatsItems == {known_item(id) : id \in 1..MaxVideoId} \cup {Item(0, 0, 0, 0, FALSE)}

\* the outcomes of the two requests made for one query, before the items
SearchAnswers ==
    {QueryAnswer("raise", <<>>, "ok", <<>>),
     QueryAnswer("status", <<>>, "ok", <<>>),
     QueryAnswer("ok", <<>>, "ok", <<>>),
     QueryAnswer("ok", <<1>>, "raise", <<>>),
     QueryAnswer("ok", <<1>>, "status", <<>>),
     QueryAnswer("ok", <<1>>, "ok", <<>>)}

\* search_queries: the queries 1..n in order
QueryLists == {[i \in 1..n |-> i] : n \in 0..MaxQueries}

\* the call of fetch_youtube_videos with the queries q, against a service whose
\* videos responses hold items of `catalogue`.  Stubs: dup and again tell that a
\* video already gathered was returned again, and again for a later query;
\* first[id] is the query whose response was the first to hold video id;
\* trace is the outcomes of the queries so far, kept if traced.
FetchCall(q, catalogue, traced) ==
    [type |-> "fetch", search_queries |-> q, i |-> 1, phase |-> "search",
     catalogue |-> catalogue, traced |-> traced, trace |-> <<>>,
     dup |-> FALSE, again |-> FALSE, first |-> [id \in 1..MaxVideoId |-> 0],
     acc |-> [raised |-> FALSE, videos |-> <<>>, queried |-> <<>>],
     result |-> None]

InitFetch ==
    /\ InitHandler
    /\ bench \in {FetchCall(q, StatsItems, FALSE) : q \in QueryLists}

\* the same call with the outcome of every query recorded, against a service
\* that knows two videos
InitFetchTraced ==
    /\ InitHandler
    /\ bench \in {FetchCall(q, {known_item(1), known_item(2)}, TRUE) :
                    q \in QueryLists}

\* the outcome of the requests made for one query
answer_kind(a) ==
    IF a.search # "ok" THEN a.search
    ELSE IF a.ids = <<>> THEN "empty"
    ELSE IF a.stats = "raise" THEN "stats_raise"
    ELSE IF a.stats = "status" THEN "stats_status"
    ELSE "ok"

\* a loop over the whole list
unsliced(search_queries) == search_queries

\* the queries the loop iterates over
sliced(search_queries) == Take(search_queries, keywords_per_chapter)

\* lines 195-209: the search request and the videos request for query i
FetchAnswered(a) ==
    /\ bench.type = "fetch" /\ bench.phase = "search"
    /\ ~bench.acc.raised
    /\ bench.i <= Len(sliced(bench.search_queries))
    /\ LET acc == fetch_loop(<<bench.search_queries[bench.i]>>, <<a>>, 1, bench.acc)
           items == a.search = "ok" /\ a.ids # <<>> /\ a.stats = "ok"
       IN  bench' = [bench EXCEPT !.acc = acc,
                                  !.phase = IF items THEN "items" ELSE "search",
                                  !.i = IF items \/ acc.raised THEN @ ELSE @ + 1,
                                  !.trace = IF bench.traced
                                            THEN Append(@, answer_kind(a)) ELSE @]
    /\ UNCHANGED handlerVars

\* lines 211-238: one iteration of the loop over the items
FetchItem(item) ==
    /\ bench.type = "fetch" /\ bench.phase = "items"
    /\ item \in bench.catalogue
    /\ bench' = [bench EXCEPT
            !.acc.videos = add_items(@, <<item>>, bench.search_queries[bench.i]),
            !.dup = @ \/ (item.wellformed /\
                           \E k \in 1..Len(bench.acc.videos) :
                                bench.acc.videos[k].video_id = item.id),
            !.again = @ \/ (item.wellformed /\
                             bench.first[item.id] \notin
                                {0, bench.search_queries[bench.i]}),
            !.first = IF item.wellformed /\ @[item.id] = 0
                      THEN [@ EXCEPT ![item.id] = bench.search_queries[bench.i]]
                      ELSE @]
    /\ UNCHANGED handlerVars

\* the items of the response are used up
FetchItemsDone ==
    /\ bench.type = "fetch" /\ bench.phase = "items"
    /\ bench' = [bench EXCEPT !.phase = "search", !.i = @ + 1]
    /\ UNCHANGED handlerVars

\* lines 240-247, or the exception of a request leaves the function
FetchReturns ==
    /\ bench.type = "fetch" /\ bench.phase = "search"
    /\ bench.acc.raised \/ bench.i > Len(sliced(bench.search_queries))
    /\ bench' = [bench EXCEPT !.phase = "done", !.result = fetch_result(bench.acc)]
    /\ UNCHANGED handlerVars

NextFetch ==
    \/ \E a \in SearchAnswers : FetchAnswered(a)
    \/ \E item \in StatsItems : FetchItem(item)
    \/ FetchItemsDone
    \/ FetchReturns

SpecFetch == InitFetch /\ [][NextFetch]_vars

SpecFetchTraced == InitFetchTraced /\ [][NextFetch]_vars

\* fetch_youtube_videos has returned a resource set
Fetched == bench.type = "fetch" /\ bench.result # None /\ ~bench.result.raised

-----------------------------------------------------------------------------
(* safe_json_loads on its own, over texts that are sequences of code points *)

\* NUL, LF, space, the double quote, the digit 1, the brackets and DEL
Chars == {0, 10, 32, 34, 49, 91, 93, 127}

Texts == UNION {[1..n -> Chars] : n \in 0..MaxTextLen}

\* the class [\x00-\x1f\x7f]
is_control(c) == c \in 0..31 \/ c = 127

\* a substitution that removes the first match only
strip_first_control(text) ==
    IF \E p \in 1..Len(text) : is_control(text[p])
    THEN LET p == CHOOSE p \in 1..Len(text) :
                    /\ is_control(text[p])
                    /\ \A q \in 1..(p - 1) : ~is_control(text[q])
         IN  SubSeq(text, 1, p - 1) \o SubSeq(text, p + 1, Len(text))
    ELSE text

\* re.sub(r"[\x00-\x1f\x7f]", "", response_text)
strip_chars(text) == SelectSeq(text, LAMBDA c : ~is_control(c))

\* the whitespace of the JSON decoder: space, tab, LF, CR
is_json_space(c) == c \in {32, 9, 10, 13}

\* the first position from p on that holds no JSON whitespace
RECURSIVE skip_space(_, _)
skip_space(text, p) ==
    IF p <= Len(text) /\ is_json_space(text[p]) THEN skip_space(text, p + 1)
    ELSE p

\* the first position from p on that does not hold c
RECURSIVE skip_run(_, _, _)
skip_run(text, p, c) ==
    IF p <= Len(text) /\ text[p] = c THEN skip_run(text, p + 1, c) ELSE p

NoValue == [ok |-> FALSE]
Value(v, next) == [ok |-> TRUE, value |-> v, next |-> next]

\* the JSON decoder on the value that starts at p: a string (in which a code
\* point below 0x20 is an error), an integer, an array of at most one element
RECURSIVE scan_value(_, _)
scan_value(text, p) ==
    IF p > Len(text) THEN NoValue
    ELSE IF text[p] = 34 THEN
        IF \E q \in (p + 1)..Len(text) : text[q] = 34
        THEN LET q == CHOOSE q \in (p + 1)..Len(text) :
                        /\ text[q] = 34
                        /\ \A r \in (p + 1)..(q - 1) : text[r] # 34
             IN  IF \E r \in (p + 1)..(q - 1) : text[r] < 32 THEN NoValue
                 ELSE Value([type |-> "str", chars |-> SubSeq(text, p + 1, q - 1)],
                            q + 1)
        ELSE NoValue
    ELSE IF text[p] = 49 THEN
        LET q == skip_run(text, p, 49)
        IN  Value([type |-> "int", digits |-> q - p], q)
    ELSE IF text[p] = 91 THEN
        LET q == skip_space(text, p + 1)
        IN  IF q <= Len(text) /\ text[q] = 93
            THEN Value([type |-> "list", items |-> <<>>], q + 1)
            ELSE LET v == scan_value(text, q)
                     r == IF v.ok THEN skip_space(text, v.next) ELSE 0
                 IN  IF v.ok /\ r <= Len(text) /\ text[r] = 93
                     THEN Value([type |-> "list", items |-> <<v.value>>], r + 1)
                     ELSE NoValue
    ELSE NoValue

\* json.loads on a sequence of code points: one value between whitespace
loads_chars(text) ==
    LET v == scan_value(text, skip_space(text, 1))
    IN  IF v.ok /\ skip_space(text, v.next) > Len(text) THEN Ok(v.value)
        ELSE Raise([exc |-> "JSONDecodeError"])

\* safe_json_loads on a sequence of code points
safe_json_loads_chars(response_text) ==
    LET stripped == strip_chars(response_text)
        parsed == loads_chars(stripped)
    IN  IF parsed.raised
        THEN Raise(HTTPException(500, InvalidJsonDetail(stripped)))
        ELSE parsed

InitSanitizer ==
    /\ InitHandler
    /\ bench \in {[type |-> "sanitizer", response_text |-> t, result |-> None] :
                    t \in Texts}

SanitizerReturns ==
    /\ bench.type = "sanitizer" /\ bench.result = None
    /\ bench' = [bench EXCEPT !.result = safe_json_loads_chars(bench.response_text)]
    /\ UNCHANGED handlerVars

NextSanitizer == SanitizerReturns

SpecSanitizer == InitSanitizer /\ [][NextSanitizer]_vars

\* safe_json_loads has returned or raised
Sanitized == bench.type = "sanitizer" /\ bench.result # None

-----------------------------------------------------------------------------
(* the Document Store under the puts of several requests; titles are sequences
   of code points, the clock counts seconds *)

\* the letter A, the space and the underscore
TitleChars == {65, 32, 95}

Titles == UNION {[1..n -> TitleChars] : n \in 1..MaxTitleLen}

\* course_title.replace(' ', '_')
replace_spaces(title) == [p \in 1..Len(title) |-> IF title[p] = 32 THEN 95 ELSE title[p]]

\* the code points of "courses", the default folder, and of ".json"
Folder == <<99, 111, 117, 114, 115, 101, 115>>
DotJson == <<46, 106, 115, 111, 110>>

\* the decimal digits of a natural number
RECURSIVE str_int(_)
str_int(n) == IF n < 10 THEN <<48 + n>> ELSE str_int(n \div 10) \o <<48 + (n % 10)>>

\* f"{course_title.replace(' ', '_')}_{int(time.time())}"
filename(title, now) == replace_spaces(title) \o <<95>> \o str_int(now)

\* f"{folder}/{filename}.json" and f"{folder}/{course_name}.json"
object_key(name) == Folder \o <<47>> \o name \o DotJson

\* s3.put_object(Key=key, Body=...): the store keeps one body per key, the
\* last one put
put_object(objects, key, body) ==
    {o \in objects : o.key # key} \cup {[key |-> key, body |-> body]}

\* key.startswith(prefix) and key.endswith(suffix)
startswith(text, prefix) ==
    /\ Len(prefix) <= Len(text)
    /\ SubSeq(text, 1, Len(prefix)) = prefix

endswith(text, suffix) ==
    /\ Len(suffix) <= Len(text)
    /\ SubSeq(text, Len(text) - Len(suffix) + 1, Len(text)) = suffix

\* key.split("/")[-1]: what follows the last "/"
last_segment(text) ==
    LET slashes == {p \in 1..Len(text) : text[p] = 47}
    IN  IF slashes = {} THEN text
        ELSE SubSeq(text, (CHOOSE p \in slashes : \A q \in slashes : q <= p) + 1,
                    Len(text))

\* text.replace(old, ""): every occurrence of old, from the left, is dropped
RECURSIVE remove_all(_, _)
remove_all(text, old) ==
    IF Len(text) < Len(old) THEN text
    ELSE IF SubSeq(text, 1, Len(old)) = old
         THEN remove_all(SubSeq(text, Len(old) + 1, Len(text)), old)
         ELSE <<Head(text)>> \o remove_all(Tail(text), old)

\* the name list_courses gives for a key
course_name_of(key) == remove_all(last_segment(key), DotJson)

\* list_courses: the names of the objects under "courses/" whose key ends
\* with ".json"
list_courses(objects) ==
    {course_name_of(o.key) :
        o \in {x \in objects : /\ startswith(x.key, Folder \o <<47>>)
                               /\ endswith(x.key, DotJson)}}

\* get_course: the document decoded from the body under the key of the name,
\* HTTP 500 when get_object finds no such key
get_course(objects, course_name) ==
    LET found == {o \in objects : o.key = object_key(course_name)}
    IN  IF found = {}
        THEN Raise(HTTPException(500, [error |-> str([exc |-> "NoSuchKey"])]))
        ELSE Ok((CHOOSE o \in found : TRUE).body)

InitStore ==
    /\ InitHandler
    /\ bench = [type |-> "store", objects |-> {}, now |-> 0, requests |-> 0,
                listed |-> FALSE, courses |-> {}, got |-> {}]

\* lines 428-429: the r-th request to get this far, whose outline has the
\* title given, puts its document (body r)
StorePersist(title) ==
    /\ bench.type = "store"
    /\ bench.requests < MaxRequests
    /\ bench' = [bench EXCEPT
            !.requests = @ + 1,
            !.objects = put_object(@, object_key(filename(title, bench.now)),
                                   bench.requests + 1)]
    /\ UNCHANGED handlerVars

\* a second passes
StoreTick ==
    /\ bench.type = "store"
    /\ bench.now < MaxClock
    /\ bench' = [bench EXCEPT !.now = @ + 1]
    /\ UNCHANGED handlerVars

NextStore ==
    \/ \E title \in Titles : StorePersist(title)
    \/ StoreTick

SpecStore == InitStore /\ [][NextStore]_vars

\* titles that may hold "/" and ".json" as well
PathTitles ==
    LET short == UNION {[1..n -> TitleChars \cup {47}] : n \in 1..MaxTitleLen}
    IN  short \cup {t \o DotJson : t \in short} \cup {DotJson \o t : t \in short}

\* GET /list-courses/
StoreListed ==
    /\ bench.type = "store"
    /\ bench.requests > 0
    /\ ~bench.listed
    /\ bench' = [bench EXCEPT !.listed = TRUE, !.courses = list_courses(bench.objects)]
    /\ UNCHANGED handlerVars

\* GET /get-course/{course_name} with a name of the list
StoreFetched(course_name) ==
    /\ bench.type = "store"
    /\ bench.listed
    /\ course_name \in bench.courses
    /\ bench.got = {}
    /\ bench' = [bench EXCEPT
            !.got = {[course_name |-> course_name,
                      result |-> get_course(bench.objects, course_name)]}]
    /\ UNCHANGED handlerVars

\* one request puts its document in the empty store, then the courses are
\* listed and one of the list is fetched
NextRoundTrip ==
    \/ bench.requests = 0 /\ \E title \in PathTitles : StorePersist(title)
    \/ StoreTick
    \/ StoreListed
    \/ \E course_name \in bench.courses : StoreFetched(course_name)

SpecRoundTrip == InitStore /\ [][NextRoundTrip]_vars

-----------------------------------------------------------------------------
(* the study_links loop on its own, over chapters whose resource sets are
   attached *)

\* the videos of the resource sets: enough of them for more than MaxStudyLinks
\* distinct links
LinkVideoIds == 1..(2 * max_total_videos)

\* the video ids of the chapters
RECURSIVE ids_of(_)
ids_of(chapters) ==
    IF chapters = <<>> THEN {}
    ELSE {Head(chapters).videos.videos[k].video_id :
            k \in 1..Len(Head(chapters).videos.videos)}
         \cup ids_of(Tail(chapters))

InitLinks ==
    /\ InitHandler
    /\ bench = [type |-> "links", full_chapters |-> <<>>, aggregated |-> FALSE,
                study_links |-> <<>>]

\* full_chapters.append(chapter_model), with an empty resource set
LinksChapterAppended ==
    /\ bench.type = "links" /\ ~bench.aggregated
    /\ Len(bench.full_chapters) < MaxChapters + 1
    /\ bench' = [bench EXCEPT !.full_chapters =
            Append(@, [videos |-> [total_videos |-> 0, videos |-> <<>>]])]
    /\ UNCHANGED handlerVars

\* the resource set of the last chapter has one more video: at most
\* max_total_videos, of distinct ids; the videos are numbered in the order of
\* their first appearance
LinksVideoAttached(id) ==
    /\ bench.type = "links" /\ ~bench.aggregated
    /\ bench.full_chapters # <<>>
    /\ LET n == Len(bench.full_chapters)
           set == bench.full_chapters[n].videos
       IN  /\ set.total_videos < max_total_videos
           /\ id \notin ids_of(<<bench.full_chapters[n]>>)
           /\ \A j \in 1..(id - 1) : j \in ids_of(bench.full_chapters)
           /\ bench' = [bench EXCEPT !.full_chapters[n].videos =
                    [total_videos |-> set.total_videos + 1,
                     videos |-> Append(set.videos, video_data(known_item(id), n))]]
    /\ UNCHANGED handlerVars

\* lines 390-399
LinksAggregated ==
    /\ bench.type = "links" /\ ~bench.aggregated
    /\ bench' = [bench EXCEPT !.aggregated = TRUE,
                              !.study_links = study_links(bench.full_chapters)]
    /\ UNCHANGED handlerVars

NextLinks ==
    \/ LinksChapterAppended
    \/ \E id \in LinkVideoIds : LinksVideoAttached(id)
    \/ LinksAggregated

SpecLinks == InitLinks /\ [][NextLinks]_vars

-----------------------------------------------------------------------------
(* Properties *)

Succeeded == pc = "DONE"
Errored == pc = "FAILED" /\ response.status_code = 500
FailedIn(stage) == \E f \in failed : f.stage = stage

\* C1: a successful document has exactly as many chapters as the request asked
\* for (chapters > 0), whatever the length of the outline.
C1_ChapterCountIsRequested ==
    (Succeeded /\ request.chapters > 0)
        => Len(response.document.chapters) = request.chapters

\* C2: in a successful document the chapter at position i has chapter_number i,
\* whatever numbers the service wrote in the outline or in the chapter responses.
C2_NumberIsPosition ==
    Succeeded =>
        \A i \in 1..Len(response.document.chapters) :
            response.document.chapters[i].chapter_number = i

\* C3: put_object is called at most once, and only when every outline chapter
\* has its content parsed and its resource set attached; a request that failed
\* before the put never called it.
C3_NoPartialPersistence ==
    /\ puts <= 1
    /\ puts >= 1 =>
        /\ Len(full_chapters) = Len(intro_data.chapters)
        /\ \A i \in 1..Len(full_chapters) :
            /\ i \in contentCalled
            /\ full_chapters[i].study_notes =
                    NotesFor(intro_data.chapters[i].chapter_number)
            /\ full_chapters[i].videos # None
        /\ course_data.chapters = full_chapters
    /\ (pc = "FAILED" /\ ~FailedIn("persist")) => puts = 0

C3_Witness ==
    /\ puts = 1
    /\ Len(full_chapters) = 2
    /\ full_chapters[2].videos.total_videos = 1

\* C4: when the generation or the parsing of chapter k fails, the request ends
\* with an error, nothing is persisted, and neither service is called for a
\* chapter after k.
C4_ChapterFailureIsFatal ==
    \A f \in failed :
        f.stage = "chapter" =>
            /\ Errored
            /\ puts = 0
            /\ \A j \in contentCalled \cup searched : j <= f.position

C4_Witness ==
    /\ Failure("chapter", 1) \in failed
    /\ Len(intro_data.chapters) = 2
    /\ pc = "FAILED"

\* C5: when the outline stage fails, the request ends with an error and makes
\* no chapter call, no Video-Search call, no summary call and no put.
C5_OutlineFailureIsFatal ==
    FailedIn("outline") =>
        /\ Errored
        /\ contentCalled = {}
        /\ searched = {}
        /\ ~summaryCalled
        /\ puts = 0

C5_Witness ==
    /\ FailedIn("outline")
    /\ pc = "FAILED"
    /\ ~ret.raised

\* C6: a failure of the Video-Search service, of whatever kind, never ends the
\* request in an error.
C6_EnrichmentNeverFails ==
    FailedIn("resources") => pc # "FAILED"

\* C7: a failure of the narrative-summary call does not fail the request: the
\* pipeline goes on to persist the document.
C7_SummaryFailureRecovered ==
    (FailedIn("summary") /\ ~FailedIn("persist")) => pc # "FAILED"

\* C8: when put_object fails the request ends with an error, and a document is
\* returned only after its put succeeded.
C8_PutFailureIsFatal ==
    /\ FailedIn("persist") => Errored
    /\ Succeeded =>
        /\ puts = 1
        /\ ~FailedIn("persist")
        /\ response.status_code = 200
        /\ response.document = course_data

C8_Witness ==
    /\ FailedIn("persist")
    /\ pc = "FAILED"
    /\ puts = 1

\* C9: one call_bedrock_api invocation makes at most 5 attempts, and after 5
\* throttled attempts it is over with HTTP 429 and no text.
C9_AtMostFiveAttempts ==
    /\ invokes <= 5
    /\ inCall => invokes < 5
    /\ throttled >= 5 =>
        /\ ~inCall
        /\ ret.raised
        /\ ret.exc.status_code = 429
        /\ ret.exc.detail = ThrottledDetail

C9_Witness ==
    /\ throttled = 5
    /\ invokes = 5
    /\ ~inCall
    /\ ret.raised

\* C10: an invocation whose first k attempts (0 <= k <= 4) are throttled and
\* whose next attempt gets a response returns the text of that response and
\* has slept exactly k times.
C10_ThrottledThenSuccess ==
    (~inCall /\ served # None /\ (served.has_content => served.content # <<>>)) =>
        /\ throttled \in 0..4
        /\ ~ret.raised
        /\ ret.value = (IF served.has_content THEN served.content[1] ELSE EmptyText)
        /\ Len(waits) = throttled

C10_Witness ==
    /\ ~inCall
    /\ served # None
    /\ served.has_content
    /\ served.content # <<>>
    /\ ~ret.raised
    /\ throttled = 3
    /\ Len(waits) = 3


\* C11: an exception of invoke_model other than ThrottlingException ends the
\* invocation at once with HTTP 500: it is the last attempt, whatever number of
\* throttled attempts came before it, and no sleep follows it.
C11_OtherFailureNotRetried ==
    errors >= 1 =>
        /\ errors = 1
        /\ ~inCall
        /\ ret.raised
        /\ ret.exc.status_code = 500
        /\ invokes = throttled + 1
        /\ Len(waits) = throttled

C11_Witness ==
    /\ errors = 1
    /\ throttled = 2
    /\ invokes = 3
    /\ waits = <<1, 2>>

\* C17: a request whose chapters field is zero or negative is rejected before
\* the pipeline starts: neither service and not the store is ever called for it.
C17_NonPositiveCountRejected ==
    (request # None /\ request.chapters <= 0) =>
        /\ invokes = 0
        /\ contentCalled = {}
        /\ searched = {}
        /\ ~summaryCalled
        /\ puts = 0
        /\ pc \notin {"PERSISTING", "DONE"}

\* the part of an error a client reads without parsing text: the status code and
\* the fields of the detail
error_kind(exc) == <<exc.status_code, DOMAIN exc.detail>>

\* C19: the error that ends a request has the kind of the failure it comes
\* from: when call_bedrock_api raised (HTTP 429 after throttling, HTTP 500 after
\* another exception), the response carries that status and those fields.
C19_ErrorKindIdentifiesFailure ==
    (pc = "FAILED" /\ ret.raised) =>
        error_kind(response) = error_kind(ret.exc)


\* C18: every invoke_model call of one request gets the same modelId, the entry
\* of MODEL_IDS for the category of the request.
C18_OneModelPerRequest ==
    request # None =>
        /\ modelsUsed \subseteq {MODEL_IDS[request.category]}
        /\ invokes >= 1 => modelsUsed # {}

C18_Witness ==
    /\ pc = "DONE"
    /\ request.category = "Health & Medicine"
    /\ contentCalled = {1}
    /\ summaryCalled
    /\ modelsUsed = {"amazon.titan-text-express-v1"}


\* C12: the videos fetch_youtube_videos returns have pairwise different video
\* ids, whatever the queries and the responses are; so have the videos gathered
\* at any point of the loop.
C12_DistinctVideoIds ==
    bench.type = "fetch" =>
        /\ \A j, k \in 1..Len(bench.acc.videos) :
              bench.acc.videos[j].video_id = bench.acc.videos[k].video_id => j = k
        /\ Fetched =>
              \A j, k \in 1..Len(bench.result.value.videos) :
                  bench.result.value.videos[j].video_id =
                      bench.result.value.videos[k].video_id => j = k

C12_Witness ==
    /\ Fetched
    /\ bench.dup
    /\ bench.result.value.total_videos = 3
    /\ bench.result.value.videos[1].search_query
            # bench.result.value.videos[3].search_query

\* datetime.utcnow(), as a day number later than every publication day
Today == 2

\* max(1, age in days)
days_old(v) == IF Today - v.publish_date >= 1 THEN Today - v.publish_date ELSE 1

\* (likes * 2 + views) / days_old of v is at least that of w
ScoreAtLeast(v, w) ==
    (v.like_count * 2 + v.view_count) * days_old(w)
        >= (w.like_count * 2 + w.view_count) * days_old(v)

\* C13: the videos fetch_youtube_videos returns are in non-increasing order of
\* (likes * 2 + views) / max(1, age in days).
C13_RankedByScore ==
    Fetched =>
        \A j, k \in 1..Len(bench.result.value.videos) :
            j < k => ScoreAtLeast(bench.result.value.videos[j],
                                  bench.result.value.videos[k])


\* the video links of the chapters, chapter after chapter, in set order
RECURSIVE FlatLinks(_)
FlatLinks(chapters) ==
    IF chapters = <<>> THEN <<>>
    ELSE [k \in 1..Len(Head(chapters).videos.videos) |->
                Head(chapters).videos.videos[k].video_link]
         \o FlatLinks(Tail(chapters))

\* the positions of a sequence that hold a value for the first time
FirstOccurrences(seq) ==
    {p \in 1..Len(seq) : \A q \in 1..(p - 1) : seq[q] # seq[p]}

\* C14: recommended_study_links is the sequence of the first 5 distinct video
\* links met walking the chapters in order and each resource set in its order:
\* at most 5 links, no link twice, every link one of an attached resource.
C14_StudyLinksFirstFiveDistinct ==
    (bench.type = "links" /\ bench.aggregated) =>
        LET flat == FlatLinks(bench.full_chapters)
            first == FirstOccurrences(flat)
            links == bench.study_links
        IN  /\ Len(links) = Min(MaxStudyLinks, Cardinality(first))
            /\ Len(links) <= 5
            /\ \A j, k \in 1..Len(links) : links[j] = links[k] => j = k
            /\ \A k \in 1..Len(links) :
                  \E p \in first :
                      /\ Cardinality({q \in first : q <= p}) = k
                      /\ links[k] = flat[p]

C14_Witness ==
    /\ bench.type = "links" /\ bench.aggregated
    /\ Len(bench.study_links) = 5
    /\ Cardinality(FirstOccurrences(FlatLinks(bench.full_chapters))) = 6
    /\ Len(FlatLinks(bench.full_chapters)) = 8
    /\ bench.study_links[5] = video_link(5)
    /\ bench.full_chapters[3].videos.videos[1].video_id = 1


\* C15: when safe_json_loads fails, the error it raises carries the text
\* exactly as it was received, control characters included.
C15_RawTextAsReceived ==
    (Sanitized /\ bench.result.raised) =>
        bench.result.exc.detail.raw_output = bench.response_text

\* C16: removing the control characters is idempotent, and safe_json_loads
\* gives the same outcome, value or error, for a text and for the text
\* without its control characters.
C16_StripIdempotent ==
    Sanitized =>
        LET stripped == strip_chars(bench.response_text)
        IN  /\ strip_chars(stripped) = stripped
            /\ \A p \in 1..Len(stripped) : ~is_control(stripped[p])
            /\ safe_json_loads_chars(stripped) = bench.result
            /\ safe_json_loads_chars(bench.response_text) = bench.result

C16_Witness ==
    /\ Sanitized
    /\ bench.response_text = <<91, 0, 127, 93>>
    /\ bench.result = Ok([type |-> "list", items |-> <<>>])


\* C20: a document put by a successful request is never overwritten: the body
\* of every request that reached the put is still in the store, each under a
\* key of its own.
C20_NoOverwrite ==
    bench.type = "store" =>
        /\ \A r \in 1..bench.requests : \E o \in bench.objects : o.body = r
        /\ Cardinality(bench.objects) = bench.requests


\* C24: every call_bedrock_api invocation has the whole budget of its own: its
\* attempts are numbered from 0 and its first sleep is 1 second, whatever the
\* earlier invocations of the request were throttled; it gives up with HTTP 429
\* after 5 throttled attempts of its own and not before.
C24_BudgetPerCall ==
    bench.type = "budget" =>
        /\ attempt = throttled
        /\ throttled <= 5
        /\ (inCall /\ errors = 0) => invokes = throttled
        /\ waits # <<>> => waits[1] = 1
        /\ (ret # None /\ ret.raised /\ ret.exc.status_code = 429) <=> throttled = 5
        /\ (inCall /\ throttled < 5) => ENABLED InvokeModelThrottled

C24_Witness ==
    /\ bench.type = "budget"
    /\ pc = "SUMMARY_REQUESTED"
    /\ bench.spent = 3
    /\ throttled = 4
    /\ waits = <<1, 2, 4, 8>>
    /\ ~inCall
    /\ ~ret.raised

\* C25: the k-th sleep of an invocation, the one after the throttled attempt
\* k - 1, lasts 2^(k-1) seconds: the sleeps are 1, 2, 4, 8, ... and each is
\* longer than the one before.
C25_WaitsArePowersOfTwo ==
    /\ \A k \in 1..Len(waits) : waits[k] = 2 ^ (k - 1)
    /\ \A k \in 1..(Len(waits) - 1) : waits[k] < waits[k + 1]
    /\ Len(waits) >= throttled

C25_Witness ==
    /\ waits = <<1, 2, 4, 8>>
    /\ throttled = 4
    /\ ~inCall
    /\ ~ret.raised

\* C26: every sleep is followed by another attempt: an invocation that is over
\* has slept less often than it called invoke_model, so one that used up its 5
\* attempts has slept 4 times.
C26_WaitsOnlyBetweenAttempts ==
    (~inCall /\ ret # None) =>
        /\ Len(waits) < invokes
        /\ throttled = 5 => Len(waits) = 4


\* C22: the outline text goes through the same stripping as the chapter texts:
\* when a text was returned for the outline prompt and the outline stage failed,
\* the text is no outline even with its control characters removed.
C22_OutlineSanitized ==
    (FailedIn("outline") /\ ~ret.raised) =>
        LET parsed == safe_json_loads(ret.value)
        IN  parsed.raised \/ parsed.value.type # "outline"

\* C23: the stages of a request come in order: the chapter prompts after the
\* outline is parsed and each after the chapter before it has its resources;
\* the searches for chapter i after the content of chapter i is parsed; the
\* summary call and the aggregation after the last chapter has its resources;
\* the put after the aggregation.
C23_StagesInOrder ==
    /\ contentCalled # {} => intro_data # None
    /\ \A j \in contentCalled : j <= idx /\ Len(full_chapters) >= j - 1
    /\ \A j \in searched :
          /\ j \in contentCalled
          /\ Failure("chapter", j) \notin failed
          /\ Len(full_chapters) >= j - 1
          /\ j = idx => (pc # "CONTENT_REQUESTED")
    /\ summaryCalled =>
          /\ intro_data # None
          /\ Len(full_chapters) = Len(intro_data.chapters)
          /\ \A j \in 1..Len(full_chapters) : full_chapters[j].videos # None
          /\ contentCalled = 1..Len(full_chapters)
    /\ course_data # None =>
          /\ summaryCalled
          /\ course_data.chapters = full_chapters
          /\ pc \in {"PERSISTING", "DONE", "FAILED"}
    /\ puts >= 1 => course_data # None

C23_Witness ==
    /\ pc = "DONE"
    /\ contentCalled = {1, 2}
    /\ searched = {1, 2}
    /\ summaryCalled
    /\ puts = 1
    /\ response.document.chapters = full_chapters


\* fetch_youtube_videos is over, by return or by exception
FetchOver == bench.type = "fetch" /\ bench.phase = "done"

\* C21: when the keyword list is empty, or the search request of every keyword
\* is answered with a status other than 200, fetch_youtube_videos returns, with
\* no exception, a set with total_videos = 0 and no videos.
C21_NothingFoundIsEmptySet ==
    (FetchOver /\ bench.traced /\
        \A k \in 1..Len(bench.trace) : bench.trace[k] = "status") =>
        /\ bench.result = Ok(EmptyResources)
        /\ Len(bench.trace) = Min(5, Len(bench.search_queries))

C21_Witness ==
    /\ FetchOver /\ bench.traced
    /\ Len(bench.search_queries) = 6
    /\ bench.trace = <<"status", "status", "status", "status", "status">>
    /\ ~bench.result.raised
    /\ bench.result.value.total_videos = 0

\* C27: the set fetch_youtube_videos returns holds at most 3 videos, and its
\* total_videos is the length of its videos list.
C27_AtMostThreeVideos ==
    Fetched =>
        /\ Len(bench.result.value.videos) <= 3
        /\ bench.result.value.total_videos = Len(bench.result.value.videos)

C27_Witness ==
    /\ Fetched
    /\ Len(bench.acc.videos) = 4
    /\ bench.result.value.total_videos = 3
    /\ Len(bench.result.value.videos) = 3

\* C28: the queries sent are the first 5 keywords of the list at most, in list
\* order; a later keyword is never sent and is the search_query of no video.
C28_FirstFiveKeywordsOnly ==
    bench.type = "fetch" =>
        LET queried == bench.acc.queried
            considered == {bench.search_queries[p] :
                            p \in 1..Min(5, Len(bench.search_queries))}
        IN  /\ Len(queried) <= 5
            /\ \A p \in 1..Len(queried) : queried[p] = bench.search_queries[p]
            /\ \A k \in 1..Len(bench.acc.videos) :
                  bench.acc.videos[k].search_query \in considered
            /\ Fetched =>
                  /\ Len(queried) = Min(5, Len(bench.search_queries))
                  /\ \A k \in 1..Len(bench.result.value.videos) :
                        bench.result.value.videos[k].search_query \in considered

C28_Witness ==
    /\ Fetched
    /\ Len(bench.search_queries) = 6
    /\ bench.acc.queried = <<1, 2, 3, 4, 5>>
    /\ bench.result.value.total_videos = 2
    /\ bench.result.value.videos[2].search_query = 5

\* C29: a keyword whose search or videos request is answered with a status
\* other than 200 is sent once and is the search_query of no video, and the
\* keywords after it are still sent: a call in which no request raised ends
\* with every considered keyword sent.
C29_NonSuccessSkipped ==
    (bench.type = "fetch" /\ bench.traced) =>
        /\ \A k \in 1..Len(bench.trace) :
              bench.trace[k] \in {"status", "stats_status"} =>
                /\ Cardinality({p \in 1..Len(bench.acc.queried) :
                        bench.acc.queried[p] = bench.search_queries[k]}) = 1
                /\ \A j \in 1..Len(bench.acc.videos) :
                        bench.acc.videos[j].search_query # bench.search_queries[k]
        /\ (FetchOver /\ \A k \in 1..Len(bench.trace) :
                            bench.trace[k] \notin {"raise", "stats_raise"}) =>
                /\ ~bench.result.raised
                /\ Len(bench.acc.queried) = Min(5, Len(bench.search_queries))

C29_Witness ==
    /\ FetchOver /\ bench.traced
    /\ bench.trace = <<"status", "ok", "stats_status", "ok">>
    /\ bench.acc.queried = <<1, 2, 3, 4>>
    /\ bench.result.value.total_videos = 2
    /\ bench.result.value.videos[1].search_query = 2
    /\ bench.result.value.videos[2].search_query = 4

\* C30: the entry kept for a video has as search_query the first keyword, in
\* list order, whose videos response held the video, and there is one entry
\* for every video a response held.
C30_FirstOccurrenceKept ==
    bench.type = "fetch" =>
        /\ \A k \in 1..Len(bench.acc.videos) :
              bench.acc.videos[k].search_query
                    = bench.first[bench.acc.videos[k].video_id]
        /\ \A id \in 1..MaxVideoId :
              bench.first[id] # 0 =>
                  Cardinality({k \in 1..Len(bench.acc.videos) :
                                    bench.acc.videos[k].video_id = id}) = 1
        /\ Fetched =>
              \A k \in 1..Len(bench.result.value.videos) :
                  bench.result.value.videos[k].search_query
                        = bench.first[bench.result.value.videos[k].video_id]

C30_Witness ==
    /\ Fetched
    /\ bench.again
    /\ bench.first[2] = 1
    /\ Len(bench.acc.queried) = 3
    /\ bench.result.value.total_videos = 2
    /\ bench.result.value.videos[1].video_id = 2
    /\ bench.result.value.videos[1].search_query = 1
    /\ bench.result.value.videos[2].search_query = 3


\* the position at which a video was gathered
DiscoveryRank(v) ==
    CHOOSE k \in 1..Len(bench.acc.videos) : bench.acc.videos[k].video_id = v.video_id

\* C31: videos of equal score are returned in the order of their discovery, and
\* a video left out by the slice was discovered after every returned video of
\* the same score.
C31_StableRanking ==
    Fetched =>
        LET top == bench.result.value.videos
        IN  /\ \A j, k \in 1..Len(top) :
                  (j < k /\ score(top[j]) = score(top[k])) =>
                        DiscoveryRank(top[j]) < DiscoveryRank(top[k])
            /\ \A m \in 1..Len(bench.acc.videos) :
                  (\A k \in 1..Len(top) : top[k] # bench.acc.videos[m]) =>
                        \A k \in 1..Len(top) :
                            score(top[k]) = score(bench.acc.videos[m]) =>
                                DiscoveryRank(top[k]) < m

C31_Witness ==
    /\ Fetched
    /\ Len(bench.acc.videos) = 4
    /\ bench.acc.videos[1].video_id = 3
    /\ bench.acc.videos[2].video_id = 1
    /\ bench.acc.videos[3].video_id = 4
    /\ bench.acc.videos[2].search_query = 2
    /\ bench.result.value.total_videos = 3
    /\ bench.result.value.videos[1].video_id = 3
    /\ bench.result.value.videos[3].video_id = 4

\* C32: a returned set holds at most videos_per_keyword (1) videos with the
\* same search_query.
C32_VideosPerKeywordRespected ==
    Fetched =>
        \A q \in 1..Len(bench.search_queries) :
            Cardinality({k \in 1..Len(bench.result.value.videos) :
                            bench.result.value.videos[k].search_query = q})
                <= videos_per_keyword

\* C33: in the document of a successful request youtube_resources_count is the
\* number of videos attached to its chapters, which is the sum of the chapters'
\* total_videos, and total_chapters is the number of its chapters.
C33_MetadataCounts ==
    Succeeded =>
        LET doc == response.document
            attached == {jk \in (1..Len(doc.chapters)) \X (1..max_total_videos) :
                            jk[2] <= Len(doc.chapters[jk[1]].videos.videos)}
        IN  /\ doc.metadata.youtube_resources_count = Cardinality(attached)
            /\ doc.metadata.youtube_resources_count =
                    SumSeq([j \in 1..Len(doc.chapters) |->
                                doc.chapters[j].videos.total_videos])
            /\ doc.metadata.total_chapters = Len(doc.chapters)

C33_Witness ==
    /\ Succeeded
    /\ Len(response.document.chapters) = 2
    /\ response.document.chapters[1].videos.total_videos = 1
    /\ response.document.chapters[2].videos.total_videos = 1
    /\ response.document.metadata.youtube_resources_count = 2
    /\ response.document.metadata.total_chapters = 2


\* the request is over: a document or an error was returned
Terminal == pc \in {"DONE", "FAILED"}

\* C34: a request whose calls all return ends in DONE or in FAILED, and once it
\* has ended no call is made any more to invoke_model, to the Video-Search
\* service or to put_object.
C34_Terminates ==
    /\ (request # None) ~> Terminal
    /\ [][Terminal =>
            /\ Terminal'
            /\ UNCHANGED <<invokes, contentCalled, searched, summaryCalled, puts>>
       ]_<<pc, invokes, contentCalled, searched, summaryCalled, puts>>

C34_Witness ==
    /\ pc = "FAILED"
    /\ FailedIn("summary")
    /\ throttled = 5
    /\ Len(full_chapters) = 2
    /\ puts = 0


\* C35: after a successful generate_learning_path, list_courses gives a name
\* for the document put with which get_course returns that document, whatever
\* the title of the outline, with "/" or ".json" in it too.
C35_StoreRoundTrip ==
    (bench.type = "store" /\ bench.listed) =>
        \A o \in bench.objects :
            \E course_name \in bench.courses :
                get_course(bench.objects, course_name) = Ok(o.body)

====
